---- MODULE Spec2Model ----
(***************************************************************************)
(* Model of generate_structure.py: the literal table `structure` and       *)
(* create_structure(base_path), which for every (path, content) item       *)
(* joins the path to base_path, makes the parent directories               *)
(* (os.makedirs(..., exist_ok=True)) and writes the content with           *)
(* open(full_path, "w").                                                   *)
(*                                                                         *)
(* A path is a sequence of segments.  The segment "/" at the head marks an *)
(* absolute path, "." is the current directory and ".." the parent.  The   *)
(* filesystem is the set `dirs` of directory locations and the function    *)
(* `files` from file locations to contents; a location is a sequence of    *)
(* names below the root <<>>, which is also the working directory.  A      *)
(* content is a sequence of bytes.                                         *)
(***************************************************************************)
EXTENDS Integers, Sequences, FiniteSets, TLC

VARIABLES
    structure,   \* the table: a sequence of [path, content] with unique paths
    base_path,   \* the argument of create_structure
    dirs,        \* the directories on disk
    files,       \* the files on disk and their contents
    ro,          \* the directories in which nothing may be created
    pc,          \* "idle", "mkdirs", "write", "done" or "raised"
    idx,         \* the position of the loop in the table
    err,         \* the exception that ended the run, or ""
    result,      \* the value returned by the run
    stdout,      \* what has been printed
    run,         \* the number of calls so far
    history,     \* the outcome of every finished run
    structure0,  \* the table, the directories and the files as the
    dirs0,       \*   current run found them
    files0,
    log          \* the writes of the current run: the path, and whether
                 \*   the file existed just before

vars == <<structure, base_path, dirs, files, ro, pc, idx, err, result,
          stdout, run, history, structure0, dirs0, files0, log>>

(***************************************************************************)
(* Bounds of the model.                                                    *)
(***************************************************************************)
MaxEntries == 2
MaxPre == 1
MaxRuns == 2

(***************************************************************************)
(* The inputs: the contents and paths the table may hold, the base         *)
(* directories, and what may already be on disk.                           *)
(***************************************************************************)
Contents == {<<>>, <<1, 2>>}

PriorContent == <<3>>

ValidPaths == {<<"x", "y", "a.txt">>, <<"x", "b.txt">>, <<"c.txt">>}

UncheckedPaths == ValidPaths \cup {<<"..", "escape.txt">>, <<"/", "abs.txt">>}

BasePaths == {<<".">>, <<"o">>}

SuccessMessage == "Project structure generated successfully."

(***************************************************************************)
(* Path helpers.                                                           *)
(***************************************************************************)
Front(p) == SubSeq(p, 1, Len(p) - 1)

Last(p) == p[Len(p)]

\* os.path.join(base_path, path): an absolute path discards the base.
join_nobase(base, path) == path

join(base, path) ==
    IF path # <<>> /\ Head(path) = "/" THEN path ELSE base \o path

\* structure.items(): the items in insertion order
items_reversed(s) == [i \in 1..Len(s) |-> s[Len(s) + 1 - i]]

items(s) == s

\* os.path.dirname(os.path.dirname(full_path))
dirname_twice(p) == IF Len(p) < 2 THEN <<>> ELSE SubSeq(p, 1, Len(p) - 2)

\* os.path.dirname(full_path)
dirname(p) == IF p = <<>> THEN <<>> ELSE Front(p)

(***************************************************************************)
(* The filesystem as the operating system resolves it.                     *)
(***************************************************************************)
IsDirLoc(ds, loc) == loc = <<>> \/ loc \in ds

ExistsLoc(ds, fl, loc) == IsDirLoc(ds, loc) \/ loc \in DOMAIN fl

ParentLoc(loc) == IF loc = <<>> THEN <<>> ELSE Front(loc)

StepLoc(cur, seg) ==
    IF seg = "." THEN cur
    ELSE IF seg = ".." THEN ParentLoc(cur)
    ELSE Append(cur, seg)

\* A location and the locations above it, the root excluded.
RECURSIVE Prefixes(_)
Prefixes(loc) == IF loc = <<>> THEN {} ELSE {loc} \cup Prefixes(Front(loc))

\* The location a path names once every directory on the way exists.
RECURSIVE Target(_, _)
Target(p, cur) ==
    IF p = <<>> THEN cur
    ELSE IF Head(p) = "/" THEN Target(Tail(p), <<>>)
    ELSE Target(Tail(p), StepLoc(cur, Head(p)))

\* Path resolution from location cur: every segment is looked up in a
\* directory, so the walk fails on a missing or non-directory component.
RECURSIVE Resolve(_, _, _, _)
Resolve(ds, fl, p, cur) ==
    IF p = <<>> THEN [err |-> "", loc |-> cur]
    ELSE IF Head(p) = "/" THEN Resolve(ds, fl, Tail(p), <<>>)
    ELSE IF ~IsDirLoc(ds, cur)
         THEN [err |-> IF cur \in DOMAIN fl THEN "NotADirectoryError"
                       ELSE "FileNotFoundError",
               loc |-> cur]
    ELSE Resolve(ds, fl, Tail(p), StepLoc(cur, Head(p)))

\* os.path.exists(name) and os.path.isdir(name); the empty path names
\* nothing.
path_exists(ds, fl, name) ==
    LET r == Resolve(ds, fl, name, <<>>)
    IN  name # <<>> /\ r.err = "" /\ ExistsLoc(ds, fl, r.loc)

path_isdir(ds, fl, name) ==
    LET r == Resolve(ds, fl, name, <<>>)
    IN  name # <<>> /\ r.err = "" /\ IsDirLoc(ds, r.loc)

\* os.mkdir(name): one directory, whose parent must exist and be writable.
mkdir(ds, fl, rd, name) ==
    LET r == Resolve(ds, fl, name, <<>>)
    IN  IF name = <<>> THEN [err |-> "FileNotFoundError", dirs |-> ds]
        ELSE IF r.err # "" THEN [err |-> r.err, dirs |-> ds]
        ELSE IF ExistsLoc(ds, fl, r.loc)
             THEN [err |-> "FileExistsError", dirs |-> ds]
        ELSE IF ParentLoc(r.loc) \in rd
             THEN [err |-> "PermissionError", dirs |-> ds]
        ELSE [err |-> "", dirs |-> ds \cup {r.loc}]

\* The idiom `try: os.mkdir(name) except OSError: pass`.
makedirs_leaf_only(ds, fl, rd, name) ==
    [err |-> "", dirs |-> mkdir(ds, fl, rd, name).dirs]

\* shutil.rmtree(name, ignore_errors=True) before os.makedirs(name)
makedirs_fresh(ds, fl, rd, name) ==
    LET loc == Target(name, <<>>)
        below(d) == Len(d) > Len(loc) /\ SubSeq(d, 1, Len(loc)) = loc
    IN  [err |-> "", dirs |-> {d \in ds : ~below(d)} \cup Prefixes(loc)]

\* os.makedirs(name, exist_ok=True)
RECURSIVE makedirs(_, _, _, _)
makedirs(ds, fl, rd, name) ==
    LET head == IF name = <<>> THEN <<>> ELSE Front(name)
        tail == IF name = <<>> THEN "" ELSE Last(name)
        recurse == head # <<>> /\ ~path_exists(ds, fl, head)
        up == IF recurse THEN makedirs(ds, fl, rd, head)
              ELSE [err |-> "", dirs |-> ds]
        m == mkdir(up.dirs, fl, rd, name)
    IN  IF up.err \notin {"", "FileExistsError"} THEN up
        ELSE IF recurse /\ tail = "." THEN [err |-> "", dirs |-> up.dirs]
        ELSE IF m.err = "" THEN m
        ELSE IF path_isdir(up.dirs, fl, name) THEN [err |-> "", dirs |-> up.dirs]
        ELSE m

\* open(full_path, "a") followed by f.write(content)
open_write_append(ds, fl, rd, name, content, fault) ==
    LET r == Resolve(ds, fl, name, <<>>)
        old == IF r.loc \in DOMAIN fl THEN fl[r.loc] ELSE <<>>
    IN  IF r.err # "" \/ IsDirLoc(ds, r.loc) \/ fault
             \/ (r.loc \notin DOMAIN fl /\ ParentLoc(r.loc) \in rd)
        THEN [err |-> "OSError", files |-> fl]
        ELSE [err |-> "",
              files |-> [q \in DOMAIN fl \cup {r.loc} |->
                            IF q = r.loc THEN old \o content ELSE fl[q]]]

\* os.open(full_path, O_WRONLY | O_CREAT) without O_TRUNC, then the write
open_write_notrunc(ds, fl, rd, name, content, fault) ==
    LET r == Resolve(ds, fl, name, <<>>)
        old == IF r.loc \in DOMAIN fl THEN fl[r.loc] ELSE <<>>
        rest == IF Len(old) > Len(content)
                THEN SubSeq(old, Len(content) + 1, Len(old)) ELSE <<>>
    IN  IF r.err # "" \/ IsDirLoc(ds, r.loc) \/ fault
             \/ (r.loc \notin DOMAIN fl /\ ParentLoc(r.loc) \in rd)
        THEN [err |-> "OSError", files |-> fl]
        ELSE [err |-> "",
              files |-> [q \in DOMAIN fl \cup {r.loc} |->
                            IF q = r.loc THEN content \o rest ELSE fl[q]]]

\* `if content:` guarding the open and the write
open_write_nonempty(ds, fl, rd, name, content, fault) ==
    LET r == Resolve(ds, fl, name, <<>>)
    IN  IF r.err # "" \/ IsDirLoc(ds, r.loc) \/ fault
             \/ (r.loc \notin DOMAIN fl /\ ParentLoc(r.loc) \in rd)
        THEN [err |-> "OSError", files |-> fl]
        ELSE IF content = <<>> THEN [err |-> "", files |-> fl]
        ELSE [err |-> "",
              files |-> [q \in DOMAIN fl \cup {r.loc} |->
                            IF q = r.loc THEN content ELSE fl[q]]]

\* with open(full_path, "w", encoding="utf-8") as f: f.write(content)
\* open creates the file or truncates it; `fault` is a device failure of the
\* write that follows, which leaves the file truncated.
open_write(ds, fl, rd, name, content, fault) ==
    LET r == Resolve(ds, fl, name, <<>>)
        put(c) == [q \in DOMAIN fl \cup {r.loc} |->
                      IF q = r.loc THEN c ELSE fl[q]]
    IN  IF name = <<>> THEN [err |-> "FileNotFoundError", files |-> fl]
        ELSE IF r.err # "" THEN [err |-> r.err, files |-> fl]
        ELSE IF IsDirLoc(ds, r.loc)
             THEN [err |-> "IsADirectoryError", files |-> fl]
        ELSE IF r.loc \notin DOMAIN fl /\ ParentLoc(r.loc) \in rd
             THEN [err |-> "PermissionError", files |-> fl]
        ELSE IF fault THEN [err |-> "OSError", files |-> put(<<>>)]
        ELSE [err |-> "", files |-> put(content)]

(***************************************************************************)
(* The initial states: a table with unique paths, a base directory, and a  *)
(* well-formed tree of at most MaxPre nodes already on disk.               *)
(***************************************************************************)
FsLocs(paths) ==
    UNION {Prefixes(Target(join(b, p), <<>>)) : b \in BasePaths, p \in paths}

Kinds == {"dir", "rodir", "file"}

\* The nodes that may be added to tree t: a new location whose parent is the
\* root or a directory of t.
Addable(locs, t) ==
    {n \in [loc : locs, kind : Kinds] :
        /\ \A m \in t : m.loc # n.loc
        /\ Len(n.loc) > 1 =>
              \E m \in t : m.loc = Front(n.loc) /\ m.kind # "file"}

RECURSIVE TreesUpTo(_, _)
TreesUpTo(locs, k) ==
    IF k = 0 THEN {{}}
    ELSE LET smaller == TreesUpTo(locs, k - 1)
         IN  smaller \cup
             UNION {{t \cup {n} : n \in Addable(locs, t)} : t \in smaller}

Trees(paths) == TreesUpTo(FsLocs(paths), MaxPre)

Entries(paths) == [path : paths, content : Contents]

Manifests(paths) ==
    UNION {{s \in [1..n -> Entries(paths)] :
               \A i, j \in 1..n : s[i].path = s[j].path => i = j}
           : n \in 0..MaxEntries}

InitWith(paths) ==
    /\ structure \in Manifests(paths)
    /\ base_path \in BasePaths
    /\ \E t \in Trees(paths) :
          /\ dirs = {n.loc : n \in {m \in t : m.kind # "file"}}
          /\ ro = {n.loc : n \in {m \in t : m.kind = "rodir"}}
          /\ files = [l \in {n.loc : n \in {m \in t : m.kind = "file"}} |->
                         PriorContent]
    /\ pc = "idle"
    /\ idx = 1
    /\ err = ""
    /\ result = "unset"
    /\ stdout = <<>>
    /\ run = 0
    /\ history = <<>>
    /\ structure0 = structure
    /\ dirs0 = dirs
    /\ files0 = files
    /\ log = <<>>

Init == InitWith(ValidPaths)

InitUnchecked == InitWith(UncheckedPaths)

(***************************************************************************)
(* create_structure(base_path)                                             *)
(***************************************************************************)
\* The call: the loop starts at the first item of the table.
Call ==
    /\ pc \in {"idle", "done", "raised"}
    /\ run < MaxRuns
    /\ run' = run + 1
    /\ pc' = "mkdirs"
    /\ idx' = 1
    /\ err' = ""
    /\ result' = "unset"
    /\ structure0' = structure
    /\ dirs0' = dirs
    /\ files0' = files
    /\ log' = <<>>
    /\ UNCHANGED <<structure, base_path, dirs, files, ro, stdout, history>>

\* Lines 46-49 for the item at idx.
MakeDirs ==
    /\ pc = "mkdirs"
    /\ idx <= Len(structure)
    /\ LET full_path == join(base_path, items(structure)[idx].path)
           dir_name == dirname(full_path)
           m == makedirs(dirs, files, ro, dir_name)
       IN  /\ dirs' = m.dirs
           /\ err' = m.err
           /\ pc' = IF m.err = "" THEN "write" ELSE "raised"
           /\ history' = IF m.err = "" THEN history ELSE Append(history, m.err)
    /\ UNCHANGED <<structure, base_path, files, ro, idx, result, stdout, run,
                   structure0, dirs0, files0, log>>

\* Lines 51-52 for the item at idx, then the next item.
OpenWrite ==
    /\ pc = "write"
    /\ \E fault \in BOOLEAN :
          LET full_path == join(base_path, items(structure)[idx].path)
              w == open_write(dirs, files, ro, full_path,
                              items(structure)[idx].content, fault)
              loc == Resolve(dirs, files, full_path, <<>>).loc
          IN  /\ files' = w.files
              /\ err' = w.err
              /\ pc' = IF w.err = "" THEN "mkdirs" ELSE "raised"
              /\ idx' = IF w.err = "" THEN idx + 1 ELSE idx
              /\ history' = IF w.err = "" THEN history
                            ELSE Append(history, w.err)
              /\ log' = IF w.err = ""
                        THEN Append(log, [path |-> items(structure)[idx].path,
                                          existed |-> loc \in DOMAIN files])
                        ELSE log
    /\ UNCHANGED <<structure, base_path, dirs, ro, result, stdout, run,
                   structure0, dirs0, files0>>

\* Line 54 and the implicit return None.
Finish ==
    /\ pc = "mkdirs"
    /\ idx > Len(structure)
    /\ stdout' = Append(stdout, SuccessMessage)
    /\ result' = "None"
    /\ pc' = "done"
    /\ history' = Append(history, "ok")
    /\ UNCHANGED <<structure, base_path, dirs, files, ro, idx, err, run,
                   structure0, dirs0, files0, log>>

Next == Call \/ MakeDirs \/ OpenWrite \/ Finish

Spec == Init /\ [][Next]_vars

SpecUnchecked == InitUnchecked /\ [][Next]_vars

(***************************************************************************)
(* The whole loop as a function of the table and the starting tree, with   *)
(* no device failure: the tree it leaves, and the exception if it aborts.  *)
(***************************************************************************)
RECURSIVE run_all(_, _, _, _, _)
run_all(its, base, ds, fl, rd) ==
    IF its = <<>> THEN [err |-> "", dirs |-> ds, files |-> fl]
    ELSE LET full_path == join(base, Head(its).path)
             m == makedirs(ds, fl, rd, dirname(full_path))
             w == open_write(m.dirs, fl, rd, full_path, Head(its).content, FALSE)
         IN  IF m.err # "" THEN [err |-> m.err, dirs |-> m.dirs, files |-> fl]
             ELSE IF w.err # ""
                  THEN [err |-> w.err, dirs |-> m.dirs, files |-> w.files]
             ELSE run_all(Tail(its), base, m.dirs, w.files, rd)

(***************************************************************************)
(* Vocabulary of the properties.                                           *)
(***************************************************************************)
\* The location of the table's i-th entry below the base directory.
TargetOf(i) == Target(join(base_path, structure[i].path), <<>>)

Targets == {TargetOf(i) : i \in 1..Len(structure)}

BaseLoc == Target(base_path, <<>>)

Under(loc, b) == Len(loc) > Len(b) /\ SubSeq(loc, 1, Len(b)) = b

\* The proper ancestors of loc that lie below b.
AncestorsBelow(loc, b) == {a \in Prefixes(loc) : a # loc /\ Under(a, b)}

Terminated == pc \in {"done", "raised"}

\* No device failure in a finished run.
NoDeviceFailure == \A i \in 1..Len(history) : history[i] # "OSError"

\* The base directory was empty or absent when the current run began.
BaseWasEmptyOrAbsent ==
    /\ \A d \in dirs0 : ~Under(d, BaseLoc)
    /\ \A f \in DOMAIN files0 : ~Under(f, BaseLoc) /\ f # BaseLoc

\* The orders of the table: the same entries in any sequence.
Orders(s) ==
    {[i \in 1..Len(s) |-> s[f[i]]] :
        f \in {g \in [1..Len(s) -> 1..Len(s)] :
                  \A i, j \in 1..Len(s) : g[i] = g[j] => i = j}}

IsInvalidPath(p) == p # <<>> /\ (Head(p) = "/" \/ \E i \in 1..Len(p) : p[i] = "..")

HasInvalidPath == \E i \in 1..Len(structure) : IsInvalidPath(structure[i].path)

\* The report the specification describes, from the writes of the run.
ExpectedReport ==
    [i \in 1..Len(log) |->
        [path |-> log[i].path,
         flag |-> IF log[i].existed THEN "overwritten" ELSE "created"]]

\* C1: after a run that ends without error, every entry of the table has a
\* regular file at base joined with its path, holding exactly the entry's
\* content; an entry with empty content has an existing empty file.
C1_Completeness ==
    pc = "done" =>
        \A i \in 1..Len(structure) :
            /\ TargetOf(i) \in DOMAIN files
            /\ TargetOf(i) \notin dirs
            /\ files[TargetOf(i)] = structure[i].content

C1_Witness ==
    /\ pc = "done"
    /\ Len(structure) = 2
    /\ \E i \in 1..2 : /\ structure[i].content = <<>>
                       /\ TargetOf(i) \notin DOMAIN files0
                       /\ TargetOf(i) \in DOMAIN files
    /\ \E i \in 1..2 : structure[i].content # <<>>

C3_InvalidPathRejected ==
    HasInvalidPath =>
        /\ dirs = dirs0
        /\ files = files0
        /\ pc # "done"
        /\ pc = "raised" => err = "InvalidPathError"

\* C4: a successful run returns the report of its writes, in table order,
\* each flagged created or overwritten by the file's existence just before.
C4_ReportReturned ==
    pc = "done" => (result # "None" /\ result = ExpectedReport)

\* C5: an entry whose file existed before its write holds exactly the
\* entry's content once the entry is processed, whatever the prior content.
C5_FullOverwrite ==
    \A i \in 1..Len(log) :
        log[i].existed =>
            /\ log[i].path = structure[i].path
            /\ TargetOf(i) \in DOMAIN files
            /\ files[TargetOf(i)] = structure[i].content

C5_Witness ==
    /\ run = 1
    /\ Len(log) >= 1
    /\ log[1].existed
    /\ files0[TargetOf(1)] = PriorContent
    /\ structure[1].content = <<1, 2>>
    /\ files[TargetOf(1)] = <<1, 2>>

\* C6 as stated: from any starting tree, a run over any other order of the
\* same entries leaves the same tree.
C6_AnyStartSameTree ==
    (Terminated /\ err # "OSError") =>
        \A q \in Orders(structure) :
            LET r == run_all(q, base_path, dirs0, files0, ro)
            IN  r.dirs = dirs /\ r.files = files

\* C6 amended: when the run ends without error, a run over any other order
\* of the same entries from the same starting tree ends without error too
\* and leaves the same tree.
C6_OrderIndependent ==
    pc = "done" =>
        \A q \in Orders(structure) :
            LET r == run_all(q, base_path, dirs0, files0, ro)
            IN  r.err = "" /\ r.dirs = dirs /\ r.files = files

C6_Witness ==
    /\ pc = "done"
    /\ run = 1
    /\ base_path = <<"o">>
    /\ dirs0 = {}
    /\ Len(structure) = 2
    /\ structure[1].path = <<"x", "y", "a.txt">>
    /\ structure[2].path = <<"x", "b.txt">>
    /\ {<<"o", "x", "y", "a.txt">>, <<"o", "x", "b.txt">>} \subseteq DOMAIN files

\* C7: from a base directory that is empty or absent, after a run that ends
\* without error the directories below the base are exactly the proper
\* ancestors of the entries' files and the files below the base are exactly
\* the entries' files.
C7_NoExtras ==
    (pc = "done" /\ BaseWasEmptyOrAbsent) =>
        /\ {d \in dirs : Under(d, BaseLoc)} =
              UNION {AncestorsBelow(t, BaseLoc) : t \in Targets}
        /\ {f \in DOMAIN files : Under(f, BaseLoc)} = Targets
        /\ structure # <<>> => BaseLoc \in dirs \cup {<<>>}

C7_Witness ==
    /\ pc = "done"
    /\ base_path = <<"o">>
    /\ <<"o">> \notin dirs0
    /\ BaseWasEmptyOrAbsent
    /\ \E i \in 1..Len(structure) : structure[i].path = <<"x", "y", "a.txt">>
    /\ {<<"o">>, <<"o", "x">>, <<"o", "x", "y">>} \subseteq dirs

\* The number of runs that ended without error.
RECURSIVE SuccessCount(_)
SuccessCount(h) ==
    IF h = <<>> THEN 0
    ELSE (IF Head(h) = "ok" THEN 1 ELSE 0) + SuccessCount(Tail(h))

\* The file at location l: its content, or that there is none.
FileAt(fl, l) == IF l \in DOMAIN fl THEN <<"file", fl[l]>> ELSE <<"absent">>

\* C8: the entries are processed one at a time in table order, and when the
\* directory creation or the write of the k-th entry fails the run stops
\* with that error: the entries before the k-th are on disk with their
\* content, the files of the entries after it are as the run found them,
\* and no success is reported.
C8_FailFast ==
    /\ Len(log) = idx - 1
    /\ \A i \in 1..Len(log) : log[i].path = structure[i].path
    /\ pc = "raised" =>
          /\ err # ""
          /\ idx \in 1..Len(structure)
          /\ \A i \in 1..(idx - 1) :
                /\ TargetOf(i) \in DOMAIN files
                /\ files[TargetOf(i)] = structure[i].content
          /\ \A i \in (idx + 1)..Len(structure) :
                FileAt(files, TargetOf(i)) = FileAt(files0, TargetOf(i))
          /\ result = "unset"
          /\ history[Len(history)] = err
          /\ Len(stdout) = SuccessCount(history)

C8_Witness ==
    /\ pc = "raised"
    /\ run = 1
    /\ Len(structure) = 2
    /\ idx = 2
    /\ err = "IsADirectoryError"
    /\ TargetOf(1) \notin DOMAIN files0
    /\ TargetOf(1) \in DOMAIN files

\* C9: when an entry's file is about to be opened for writing, every
\* directory on the way to it exists, the base directory included.
C9_ParentChainBeforeWrite ==
    pc = "write" =>
        /\ \A a \in Prefixes(ParentLoc(TargetOf(idx))) : a \in dirs
        /\ BaseLoc \in dirs \cup {<<>>}

C9_Witness ==
    /\ pc = "write"
    /\ run = 1
    /\ base_path = <<"o">>
    /\ dirs0 = {}
    /\ DOMAIN files0 = {}
    /\ structure[idx].path = <<"x", "y", "a.txt">>
    /\ {<<"o">>, <<"o", "x">>, <<"o", "x", "y">>} \subseteq dirs

\* C10: a run removes no directory and no file, leaves every file that is
\* not an entry's file with its content, and leaves the table as it was.
C10_Frame ==
    /\ \A d \in dirs0 : d \in dirs
    /\ \A f \in DOMAIN files0 :
          /\ f \in DOMAIN files
          /\ f \notin Targets => files[f] = files0[f]
    /\ structure = structure0

C10_Witness ==
    /\ Terminated
    /\ Len(structure) = 2
    /\ Len(log) = 2
    /\ \E f \in DOMAIN files0 : f \notin Targets /\ files[f] = PriorContent

====
